---- MODULE Spec2Model ----
(***************************************************************************)
(* A model of the CSV-backed contact store (data.py: CSVDataManager) and   *)
(* of the commands that drive it (commands.py).                            *)
(*                                                                         *)
(* Strings that the program compares, lower-cases, parses or formats are   *)
(* modelled as sequences of code points (<<49, 48>> is "10"), so that      *)
(* str(), int(), str.lower() and the ordering of strings are computed as   *)
(* Python computes them.  Column names are only ever used as dictionary    *)
(* keys and are modelled as TLA+ strings.                                  *)
(***************************************************************************)
EXTENDS Integers, Sequences, FiniteSets, TLC

VARIABLES
    file_exists,    \* os.path.exists(self.file_name)
    file_header,    \* first line of the file: the column names
    file_rows,      \* the following lines: one sequence of field values each
    field_names,    \* self.field_names: None, or a list of column names
    last_call,      \* the call made last, with its arguments
    outcome,        \* "ok", or the name of the exception the call raised
    result,         \* the list that list() returned (<<>> for other calls)
    before,         \* history: the records of the table when the call was made
    assigned,       \* history: the ids (as numbers) that add has assigned
    lists,          \* the row_slice lists that exist: lists[a] is the one at address a
    command,        \* pages_loop's command: None in the main menu
    previous_page_command,  \* the command behind pages_loop's option P
    next_page_command       \* the command behind pages_loop's option N

\* the state of the store, and what is seen of its calls
store == <<file_exists, file_header, file_rows, field_names,
           last_call, outcome, result, before, assigned>>

\* the state of the page loop
pages == <<lists, command, previous_page_command, next_page_command>>

vars == <<file_exists, file_header, file_rows, field_names,
          last_call, outcome, result, before, assigned,
          lists, command, previous_page_command, next_page_command>>

-----------------------------------------------------------------------------
(* Bounds of the model *)

\* the most records the table is filled with
MaxRows == 3
\* the greatest id add is let assign
MaxId == 3
\* the most records a run of adds alone fills the table with
MaxAdds == 5
\* config.ROWS_COUNT_IN_PAGE: the records on a page
ROWS_COUNT_IN_PAGE == 2
\* the most full pages the table is filled with before it is paged through
MaxPages == 3
\* the most full pages the table is filled with before next pages alone are taken
MaxPagesAhead == 6

-----------------------------------------------------------------------------
(* Python values *)

\* Optional[...]: None is the empty set, a value x is {x}
None == {}
Some(x) == {x}
TheValue(o) == CHOOSE x \in o : TRUE

Range(s) == {s[i] : i \in DOMAIN s}

\* bool(self.field_names): None and the empty list are falsy
Truthy(o) == o # None /\ TheValue(o) # <<>>

\* the code points of the characters the model uses
Digits == 48..57
UpperCase == 65..90

\* str(n) for an int n >= 0
RECURSIVE str(_)
str(n) == IF n < 10 THEN <<48 + n>> ELSE str(n \div 10) \o <<48 + (n % 10)>>

\* whether int(s) parses s (digits only: the model's strings hold no sign,
\* blank or underscore); int("") raises ValueError
IsDecimal(s) == s # <<>> /\ \A i \in DOMAIN s : s[i] \in Digits

\* int(s) for a decimal s
RECURSIVE int(_)
int(s) == IF s = <<>> THEN 0
          ELSE 10 * int(SubSeq(s, 1, Len(s) - 1)) + (s[Len(s)] - 48)

\* str.lower() on ASCII
lower(s) == [i \in DOMAIN s |-> IF s[i] \in UpperCase THEN s[i] + 32 ELSE s[i]]

\* a < b, had the order been that of numbers: the shorter string first
StrLessAsNumbers(a, b) ==
    \/ Len(a) < Len(b)
    \/ /\ Len(a) = Len(b)
       /\ \E k \in DOMAIN a : a[k] < b[k] /\ \A m \in 1..(k - 1) : a[m] = b[m]

\* a < b on str: the first differing code point decides, a proper prefix is less
RECURSIVE StrLess(_, _)
StrLess(a, b) ==
    IF b = <<>> THEN FALSE
    ELSE IF a = <<>> THEN TRUE
    ELSE IF a[1] # b[1] THEN a[1] < b[1]
    ELSE StrLess(Tail(a), Tail(b))

\* the strings the model's inputs are made of
S_a == <<97>>
S_A == <<65>>
S_ab == <<97, 98>>
S_x == <<120>>
S_10 == <<49, 48>>
S_2 == <<50>>
S_1 == <<49>>
S_7 == <<55>>
TimeStamp == <<116>>

-----------------------------------------------------------------------------
(* The csv module *)

\* the columns __init__ creates the table with
DefaultColumns == <<"id", "last_name", "first_name", "middle_name",
                    "work_phone", "personal_phone", "date_added">>

\* dict(zip(fieldnames, row)): of two columns with one name the later one wins
RECURSIVE ZipTo(_, _, _)
ZipTo(keys, values, n) ==
    IF n = 0 THEN <<>> ELSE (keys[n] :> values[n]) @@ ZipTo(keys, values, n - 1)

\* zip stops at the shorter of the two
Zip(keys, values) ==
    ZipTo(keys, values, IF Len(keys) < Len(values) THEN Len(keys) ELSE Len(values))

\* csv.DictReader: one dict per line, keyed by the file's header
DictReader(hdr, rows) == [i \in DOMAIN rows |-> Zip(hdr, rows[i])]

\* csv.DictWriter.writerow refuses a dict with keys that are not fieldnames
HasWrongFields(fieldnames, rowdict) == ~(DOMAIN rowdict \subseteq Range(fieldnames))

\* csv.DictWriter._dict_to_list: the values in fieldnames order, "" when absent
DictToList(fieldnames, rowdict) ==
    [i \in DOMAIN fieldnames |->
        IF fieldnames[i] \in DOMAIN rowdict THEN rowdict[fieldnames[i]] ELSE <<>>]

\* the records of the file, as list() with no argument reads them
Records == DictReader(file_header, file_rows)

-----------------------------------------------------------------------------
(* Dictionaries given as criteria: a sequence of <<key, value>> pairs in    *)
(* insertion order, which is the order all(...) evaluates them in.          *)

\* the test of delete and update, had it lower-cased both sides as list does
RECURSIVE AllEqualIgnoringCase(_, _)
AllEqualIgnoringCase(row, criteria) ==
    IF criteria = <<>> THEN "yes"
    ELSE IF criteria[1][1] \notin DOMAIN row THEN "KeyError"
    ELSE IF lower(row[criteria[1][1]]) # lower(criteria[1][2]) THEN "no"
    ELSE AllEqualIgnoringCase(row, Tail(criteria))

\* all(row[key] == value for key, value in criteria.items()), evaluated left
\* to right and stopping at the first pair that differs: "yes", "no", or
\* "KeyError" when a pair is reached whose key the row does not have
RECURSIVE AllEqual(_, _)
AllEqual(row, criteria) ==
    IF criteria = <<>> THEN "yes"
    ELSE IF criteria[1][1] \notin DOMAIN row THEN "KeyError"
    ELSE IF row[criteria[1][1]] # criteria[1][2] THEN "no"
    ELSE AllEqual(row, Tail(criteria))

\* the test of list, had it taken a value that starts with the criteria's value
RECURSIVE AllStartLower(_, _)
AllStartLower(row, criteria) ==
    IF criteria = <<>> THEN "yes"
    ELSE IF criteria[1][1] \notin DOMAIN row THEN "KeyError"
    ELSE IF LET have == lower(row[criteria[1][1]])
                want == lower(criteria[1][2])
            IN  Len(have) < Len(want) \/ SubSeq(have, 1, Len(want)) # want
         THEN "no"
    ELSE AllStartLower(row, Tail(criteria))

\* all(row[key].lower() == value.lower() for key, value in criteria.items())
RECURSIVE AllEqualLower(_, _)
AllEqualLower(row, criteria) ==
    IF criteria = <<>> THEN "yes"
    ELSE IF criteria[1][1] \notin DOMAIN row THEN "KeyError"
    ELSE IF lower(row[criteria[1][1]]) # lower(criteria[1][2]) THEN "no"
    ELSE AllEqualLower(row, Tail(criteria))

-----------------------------------------------------------------------------
(* CSVDataManager *)

Raise(e) == [exc |-> e, value |-> 0]
Return(v) == [exc |-> "ok", value |-> v]

\* _get_last_id, had it counted the records instead of reading the last id
GetLastIdByCount ==
    IF ~file_exists THEN Raise("FileNotFoundError") ELSE Return(Len(Records))

\* _get_last_id, had it stopped at the first line instead of reading to the last
GetLastIdOfFirst ==
    IF ~file_exists THEN Raise("FileNotFoundError")
    ELSE IF Records = <<>> THEN Return(0)
    ELSE Return(int(Records[1]["id"]))

\* _get_last_id: the id of the last line of the file, 0 for an empty table
GetLastId ==
    IF ~file_exists THEN Raise("FileNotFoundError")
    ELSE LET records == Records IN
         IF records = <<>> THEN Return(0)
         ELSE IF "id" \notin Range(file_header) THEN Raise("KeyError")
         ELSE IF \E i \in DOMAIN records : ~IsDecimal(records[i]["id"])
              THEN Raise("ValueError")
         ELSE Return(int(records[Len(records)]["id"]))

\* the call made last
Call(op, criteria, data, order_by, row_slice, columns) ==
    [op |-> op, criteria |-> criteria, data |-> data, order_by |-> order_by,
     row_slice |-> row_slice, columns |-> columns]

NoData == <<>>

\* what is seen of a call: its arguments, how it ended, what it returned
Seen(call, e, returned) ==
    /\ last_call' = call
    /\ outcome' = e
    /\ result' = returned
    /\ before' = Records

\* a call that raises before it writes anything
Fails(call, e) ==
    /\ Seen(call, e, <<>>)
    /\ UNCHANGED <<file_exists, file_header, file_rows, field_names, assigned>>

\* data[key] = value
SetItem(d, key, value) ==
    [c \in (DOMAIN d) \cup {key} |-> IF c = key THEN value ELSE d[c]]

\* update, had it put the given fields in the place of the row
UpdateItemsOnly(row, data) == data

\* data[key] = value for every key of data
UpdateItems(row, data) ==
    [c \in (DOMAIN row) \cup (DOMAIN data) |-> IF c \in DOMAIN data THEN data[c] ELSE row[c]]

\* the id add gives the new record
NextId(last_id) == str(last_id + 1)

\* add, had it kept an id that the caller supplied (data.setdefault)
WithIdUnlessGiven(data, last_id) ==
    IF "id" \in DOMAIN data THEN data ELSE [c \in (DOMAIN data) \cup {"id"} |->
                                             IF c = "id" THEN str(last_id + 1) ELSE data[c]]

\* data['id'] = str(self._get_last_id() + 1): an id of the caller's is replaced
WithId(data, last_id) == SetItem(data, "id", NextId(last_id))

\* _get_field_names: the header of the file, None when there is no file
GetFieldNames == IF ~file_exists THEN None ELSE Some(file_header)

\* create_table, had it written the header and left self.field_names alone
CreateTableForgettingSchema(fn, columns, call) ==
    /\ Seen(call, "ok", <<>>)
    /\ UNCHANGED assigned
    /\ field_names' = fn
    /\ IF ~Truthy(fn)
       THEN /\ file_exists' = TRUE
            /\ file_header' = columns
            /\ file_rows' = <<>>
       ELSE UNCHANGED <<file_exists, file_header, file_rows>>

\* create_table, from a state where self.field_names is fn
CreateTableFrom(fn, columns, call) ==
    /\ Seen(call, "ok", <<>>)
    /\ UNCHANGED assigned
    /\ IF ~Truthy(fn)
       THEN /\ file_exists' = TRUE
            /\ file_header' = columns
            /\ file_rows' = <<>>
            /\ field_names' = Some(columns)
       ELSE /\ field_names' = fn
            /\ UNCHANGED <<file_exists, file_header, file_rows>>

\* the state __init__ leaves when the program first starts: there was no
\* file, so _get_field_names gave None and create_table wrote the header
Init ==
    /\ file_exists = TRUE
    /\ file_header = DefaultColumns
    /\ file_rows = <<>>
    /\ field_names = Some(DefaultColumns)
    /\ last_call = Call("__init__", None, NoData, None, None, Some(DefaultColumns))
    /\ outcome = "ok"
    /\ result = <<>>
    /\ before = <<>>
    /\ assigned = {}
    /\ lists = <<>>
    /\ command = None
    /\ previous_page_command = None
    /\ next_page_command = None

\* __init__ when the program starts again: the file is as the last run left it
Construct ==
    CreateTableFrom(GetFieldNames, DefaultColumns,
                    Call("__init__", None, NoData, None, None, Some(DefaultColumns)))

create_table(columns) ==
    CreateTableFrom(field_names, columns,
                    Call("create_table", None, NoData, None, None, Some(columns)))

\* drop_table, had it removed the file and kept self.field_names
drop_tableKeepingSchema ==
    /\ Seen(Call("drop_table", None, NoData, None, None, None), "ok", <<>>)
    /\ UNCHANGED <<assigned, field_names>>
    /\ IF file_exists
       THEN /\ file_exists' = FALSE
            /\ file_header' = <<>>
            /\ file_rows' = <<>>
       ELSE UNCHANGED <<file_exists, file_header, file_rows>>

\* drop_table: os.remove and self.field_names = None, when the file is there
drop_table ==
    /\ Seen(Call("drop_table", None, NoData, None, None, None), "ok", <<>>)
    /\ UNCHANGED assigned
    /\ IF file_exists
       THEN /\ file_exists' = FALSE
            /\ file_header' = <<>>
            /\ file_rows' = <<>>
            /\ field_names' = None
       ELSE UNCHANGED <<file_exists, file_header, file_rows, field_names>>

\* add, had it put the new line before the lines of the file
PutLineFirst(rows, line) == <<line>> \o rows

\* open(mode='a') and writerow: the new line goes behind the lines of the file
AppendLine(rows, line) == Append(rows, line)

\* AddContactCommand.execute(data, timestamp), which calls add(data)
add(data, timestamp) ==
    LET call == Call("add", None, data, None, None, None)
        dated == SetItem(data, "date_added", timestamp)
        last == GetLastId
    IN
    IF ~Truthy(field_names) THEN Fails(call, "Exception")
    ELSE IF last.exc # "ok" THEN Fails(call, last.exc)
    ELSE    LET row == WithId(dated, last.value) IN
            IF HasWrongFields(TheValue(field_names), row)
            THEN Fails(call, "ValueError")
            ELSE /\ file_rows' = AppendLine(file_rows, DictToList(TheValue(field_names), row))
                 /\ assigned' = assigned \cup {last.value + 1}
                 /\ Seen(call, "ok", <<>>)
                 /\ UNCHANGED <<file_exists, file_header, field_names>>

\* the rows _overwrite_with writes before a record with a key that is no
\* fieldname makes writerow raise
RECURSIVE WrittenRows(_, _)
WrittenRows(fieldnames, records) ==
    IF records = <<>> \/ HasWrongFields(fieldnames, records[1]) THEN <<>>
    ELSE <<DictToList(fieldnames, records[1])>> \o WrittenRows(fieldnames, Tail(records))

\* _overwrite_with(records): open(mode='w') empties the file, then the header
\* and the records are written one by one
OverwriteWith(call, records) ==
    /\ file_exists' = TRUE
    /\ UNCHANGED <<field_names, assigned>>
    /\ IF field_names = None
       THEN /\ file_header' = <<>>
            /\ file_rows' = <<>>
            /\ Seen(call, "TypeError", <<>>)
       ELSE LET fn == TheValue(field_names) IN
            /\ file_header' = fn
            /\ file_rows' = WrittenRows(fn, records)
            /\ Seen(call, IF \E i \in DOMAIN records : HasWrongFields(fn, records[i])
                          THEN "ValueError" ELSE "ok", <<>>)

\* delete, had it dropped the rows in which any pair of the criteria holds
UnmatchedInAnyPair(records, criteria) ==
    SelectSeq(records, LAMBDA row :
        \A k \in DOMAIN criteria : AllEqual(row, <<criteria[k]>>) # "yes")

\* [row for row in records if not all(...)]: the rows delete writes back
Unmatched(records, criteria) ==
    SelectSeq(records, LAMBDA row : AllEqual(row, criteria) # "yes")

\* DeleteContactCommand.execute(data), which calls delete(criteria=data)
delete(criteria) ==
    LET call == Call("delete", Some(criteria), NoData, None, None, None)
        records == Records
    IN
    IF ~file_exists THEN Fails(call, "FileNotFoundError")
    ELSE IF \E i \in DOMAIN records : AllEqual(records[i], criteria) = "KeyError"
    THEN Fails(call, "KeyError")
    ELSE OverwriteWith(call, Unmatched(records, criteria))

\* update(criteria, data)
update(call, criteria, data) ==
    LET records == Records IN
    IF ~file_exists THEN Fails(call, "FileNotFoundError")
    ELSE IF \E i \in DOMAIN records : AllEqual(records[i], criteria) = "KeyError"
    THEN Fails(call, "KeyError")
    ELSE OverwriteWith(call,
            [i \in DOMAIN records |->
                IF AllEqual(records[i], criteria) = "yes"
                THEN UpdateItems(records[i], data) ELSE records[i]])

\* EditContactCommand.execute({'id': id, 'update': fields})
edit(id, fields) ==
    update(Call("update", Some(<<<<"id", id>>>>), fields, None, None, None),
           <<<<"id", id>>>>, fields)

\* the place sorted() gives row among the rows placed so far: behind every
\* row whose key is not greater than its own
RECURSIVE Insert(_, _, _)
Insert(placed, row, column) ==
    IF placed = <<>> THEN <<row>>
    ELSE IF StrLess(row[column], placed[1][column]) THEN <<row>> \o placed
    ELSE <<placed[1]>> \o Insert(Tail(placed), row, column)

\* sorted(records, key=lambda row: row[order_by])
RECURSIVE sorted(_, _)
sorted(records, column) ==
    IF records = <<>> THEN <<>>
    ELSE Insert(sorted(SubSeq(records, 1, Len(records) - 1), column),
                records[Len(records)], column)

\* islice, had it taken the element at index end as well
isliceInclusive(records, start, end) ==
    LET stop == IF end + 1 < Len(records) THEN end + 1 ELSE Len(records)
    IN  IF start >= stop THEN <<>> ELSE SubSeq(records, start + 1, stop)

\* list(islice(records, start, end)) for start >= 0 and end >= 0
islice(records, start, end) ==
    LET stop == IF end < Len(records) THEN end ELSE Len(records)
    IN  IF start >= stop THEN <<>> ELSE SubSeq(records, start + 1, stop)

\* bool(order_by): None and "" are falsy
TruthyStr(o) == o # None /\ TheValue(o) # ""

\* the records list() keeps: those matching every pair of the criteria
Filtered(records, criteria) ==
    SelectSeq(records, LAMBDA row : AllEqualLower(row, criteria) = "yes")

\* list(criteria, order_by, row_slice): the file is only read
list(criteria, order_by, row_slice) ==
    LET call == Call("list", criteria, NoData, order_by, row_slice, None)
        records == Records
        kept == IF Truthy(criteria) THEN Filtered(records, TheValue(criteria)) ELSE records
        ordered == IF TruthyStr(order_by) THEN sorted(kept, TheValue(order_by)) ELSE kept
    IN
    IF ~file_exists THEN Fails(call, "FileNotFoundError")
    ELSE IF /\ Truthy(criteria)
            /\ \E i \in DOMAIN records :
                  AllEqualLower(records[i], TheValue(criteria)) = "KeyError"
    THEN Fails(call, "KeyError")
    ELSE IF TruthyStr(order_by) /\ kept # <<>> /\ TheValue(order_by) \notin Range(file_header)
    THEN Fails(call, "KeyError")
    ELSE IF Truthy(row_slice) /\ (TheValue(row_slice)[1] < 0 \/ TheValue(row_slice)[2] < 0)
    THEN Fails(call, "ValueError")
    ELSE /\ Seen(call, "ok",
                 IF Truthy(row_slice)
                 THEN islice(ordered, TheValue(row_slice)[1], TheValue(row_slice)[2])
                 ELSE ordered)
         /\ UNCHANGED <<file_exists, file_header, file_rows, field_names, assigned>>

-----------------------------------------------------------------------------
(* ListContactsCommand and the page loop *)

\* the address of a new list: the least one that is not in use
NewAddress(heap) ==
    CHOOSE a \in 1..(Cardinality(DOMAIN heap) + 1) :
        a \notin DOMAIN heap /\ \A b \in 1..(a - 1) : b \in DOMAIN heap

\* what a function that builds a command gives: the command and the lists
\* that exist after it
Object(heap, cmd) == [heap |-> heap, command |-> cmd]

\* the numbers of command.row_slice
Window(heap, cmd) == heap[cmd.row_slice]

\* ListContactsCommand(order_by): row_slice is a new list [0, ROWS_COUNT_IN_PAGE]
ListContactsCommand(heap, order_by) ==
    LET a == NewAddress(heap)
    IN  Object(heap @@ (a :> <<0, ROWS_COUNT_IN_PAGE>>),
               [order_by |-> order_by, row_slice |-> a])

\* copy.copy(command), in the place of deepcopy: the copy holds the same list
copy(heap, cmd) == Object(heap, cmd)

\* deepcopy(command): the copy holds a new list with the same numbers
deepcopy(heap, cmd) ==
    LET a == NewAddress(heap)
    IN  Object(heap @@ (a :> heap[cmd.row_slice]), [cmd EXCEPT !.row_slice = a])

\* command.row_slice[i - 1] = value
SetSliceItem(heap, cmd, i, value) ==
    [heap EXCEPT ![cmd.row_slice] = [@ EXCEPT ![i] = value]]

\* get_previous_page_command, had it gone back to the first page from every window
PreviousPageReset(heap, cmd) ==
    LET new == deepcopy(heap, cmd)
        h1 == SetSliceItem(new.heap, new.command, 1, 0)
    IN  Object(SetSliceItem(h1, new.command, 2, ROWS_COUNT_IN_PAGE), new.command)

\* get_previous_page_command(command)
get_previous_page_command(heap, cmd) ==
    LET new == deepcopy(heap, cmd)
        previous_page_command_ == new.command
    IN  IF Window(new.heap, cmd)[1] >= ROWS_COUNT_IN_PAGE
        THEN LET h1 == SetSliceItem(new.heap, previous_page_command_, 1,
                          Window(new.heap, previous_page_command_)[1] - ROWS_COUNT_IN_PAGE)
                 h2 == SetSliceItem(h1, previous_page_command_, 2,
                          Window(h1, previous_page_command_)[2] - ROWS_COUNT_IN_PAGE)
             IN  Object(h2, previous_page_command_)
        ELSE LET h1 == SetSliceItem(new.heap, previous_page_command_, 1, 0)
                 h2 == SetSliceItem(h1, previous_page_command_, 2, ROWS_COUNT_IN_PAGE)
             IN  Object(h2, previous_page_command_)

\* get_next_page_command, had it returned the copy as it is
NextPageStaying(heap, cmd, list_length) == deepcopy(heap, cmd)

\* get_next_page_command(command), list_length being len(data_manager.list())
get_next_page_command(heap, cmd, list_length) ==
    LET new == deepcopy(heap, cmd)
        next_page_command_ == new.command
    IN  IF Window(new.heap, cmd)[2] + ROWS_COUNT_IN_PAGE > list_length
        THEN LET h1 == SetSliceItem(new.heap, next_page_command_, 1,
                                    list_length - ROWS_COUNT_IN_PAGE)
                 h2 == SetSliceItem(h1, next_page_command_, 2, list_length)
             IN  Object(h2, next_page_command_)
        ELSE LET h1 == SetSliceItem(new.heap, next_page_command_, 1,
                          Window(new.heap, next_page_command_)[1] + ROWS_COUNT_IN_PAGE)
                 h2 == SetSliceItem(h1, next_page_command_, 2,
                          Window(h1, next_page_command_)[2] + ROWS_COUNT_IN_PAGE)
             IN  Object(h2, next_page_command_)

\* an exception that nothing catches ends the program: no command is left
Leave ==
    /\ lists' = <<>>
    /\ command' = None
    /\ previous_page_command' = None
    /\ next_page_command' = None

\* pages_loop(command): the commands of the options P and N are built from
\* the command just executed; lists that no command holds any more are gone
pages_loop(heap, cmd) ==
    \E previous \in {get_previous_page_command(heap, cmd)} :
    \E next \in {get_next_page_command(previous.heap, cmd, Len(file_rows))} :
        LET held == {cmd.row_slice, previous.command.row_slice, next.command.row_slice}
        IN  /\ lists' = [a \in held |-> next.heap[a]]
            /\ command' = Some(cmd)
            /\ previous_page_command' = Some(previous.command)
            /\ next_page_command' = Some(next.command)

\* Option.choose() for a list command: command.execute(None), then
\* after_call(command), which is pages_loop
choose(heap, cmd) ==
    /\ list(None, cmd.order_by, Some(Window(heap, cmd)))
    /\ IF outcome' = "ok" THEN pages_loop(heap, cmd) ELSE Leave

\* main_loop, option L: a new ListContactsCommand is executed
ListContacts(order_by) ==
    /\ command = None
    /\ LET new == ListContactsCommand(lists, order_by)
       IN  choose(new.heap, new.command)

\* pages_loop, option P
PreviousPage ==
    /\ command # None
    /\ choose(lists, TheValue(previous_page_command))

\* pages_loop, option N
NextPage ==
    /\ command # None
    /\ choose(lists, TheValue(next_page_command))

\* pages_loop, option Q: QuitPageLoopCommand goes back to the main menu
QuitPageLoop ==
    /\ command # None
    /\ Leave
    /\ UNCHANGED store

-----------------------------------------------------------------------------
(* The calls the model makes *)

\* last names: two that differ in case only, and one that contains another
Names == {S_a, S_A, S_ab}

\* a dict with one key, and with two
Dict1(k, v) == [c \in {k} |-> v]
Dict2(k1, v1, k2, v2) == [c \in {k1, k2} |-> IF c = k1 THEN v1 ELSE v2]

\* the contacts added: a last name, with or without an id of the caller's,
\* and one with a key that is no column
AddData ==
    {Dict1("last_name", n) : n \in Names}
    \cup {Dict2("last_name", S_a, "id", S_7)}
    \cup {Dict2("last_name", S_a, "nickname", S_x)}

\* the column lists create_table is called with
ColumnChoices == {DefaultColumns, <<"last_name">>, <<>>}

\* criteria of delete
DeleteCriteria ==
    {<<<<"id", str(n)>>>> : n \in 1..2}
    \cup {<<<<"last_name", S_a>>>>, <<<<"last_name", S_a>>, <<"id", S_2>>>>,
          <<<<"id", S_2>>, <<"nickname", S_x>>>>, <<>>}

\* the ids and the fields of the edits
EditIds == {S_1, S_2}
EditFields ==
    {Dict1("last_name", S_A), Dict1("id", S_2), Dict1("id", S_10),
     Dict1("nickname", S_x)}

\* criteria of list
ListCriteria ==
    {None, Some(<<>>), Some(<<<<"last_name", S_a>>>>), Some(<<<<"last_name", S_ab>>>>),
     Some(<<<<"last_name", S_A>>, <<"id", S_2>>>>),
     Some(<<<<"id", S_2>>, <<"nickname", S_x>>>>)}
ListOrders == {None, Some("id"), Some("last_name"), Some("nickname")}
ListSlices == {None, Some(<<0, 1>>), Some(<<1, 3>>), Some(<<-1, 1>>)}

\* the calls of list: each argument alone, and some together
ListCalls ==
    {<<c, None, None>> : c \in ListCriteria}
    \cup {<<None, o, None>> : o \in ListOrders}
    \cup {<<None, None, s>> : s \in ListSlices}
    \cup {<<Some(<<<<"last_name", S_a>>>>), o, s>> :
            o \in {Some("id"), Some("last_name")}, s \in {None, Some(<<1, 3>>)}}

\* the table has room for another record within the bounds
Room(max_rows, max_id) ==
    /\ Len(file_rows) < max_rows
    /\ LET last == GetLastId IN last.exc = "ok" => last.value < max_id

\* the calls of the store, outside the page loop
Next ==
    \/ Construct /\ UNCHANGED pages
    \/ \E columns \in ColumnChoices : create_table(columns) /\ UNCHANGED pages
    \/ drop_table /\ UNCHANGED pages
    \/ Room(MaxRows, MaxId) /\ \E data \in AddData : add(data, TimeStamp) /\ UNCHANGED pages
    \/ \E criteria \in DeleteCriteria : delete(criteria) /\ UNCHANGED pages
    \/ \E id \in EditIds, fields \in EditFields : edit(id, fields) /\ UNCHANGED pages
    \/ \E c \in ListCalls : list(c[1], c[2], c[3]) /\ UNCHANGED pages

Spec == Init /\ [][Next]_vars

\* add and delete only, on the table __init__ created
NextAddDelete ==
    \/ Room(MaxRows, MaxId) /\ \E data \in AddData : add(data, TimeStamp) /\ UNCHANGED pages
    \/ \E criteria \in DeleteCriteria : delete(criteria) /\ UNCHANGED pages

SpecAddDelete == Init /\ [][NextAddDelete]_vars

\* add only, on the table __init__ created
NextAdd ==
    Room(MaxAdds, MaxAdds) /\ \E data \in AddData : add(data, TimeStamp) /\ UNCHANGED pages

SpecAdd == Init /\ [][NextAdd]_vars

\* the contact added before the table is paged through: the pages differ by
\* the ids of their records
PagedData == {Dict1("last_name", S_a)}

\* order_by of a new ListContactsCommand
PageOrders == {None, Some("last_name")}

\* the table has room for another record before it is paged through
PagedRoom == Len(file_rows) < MaxPages * ROWS_COUNT_IN_PAGE

\* the main menu (add, list) and the page loop (previous, next, quit); the
\* table changes in the main menu only
NextPages ==
    \/ /\ command = None
       /\ PagedRoom
       /\ \E data \in PagedData : add(data, TimeStamp)
       /\ UNCHANGED pages
    \/ \E order_by \in PageOrders : ListContacts(order_by)
    \/ PreviousPage
    \/ NextPage
    \/ QuitPageLoop

SpecPages == Init /\ [][NextPages]_vars

\* the table is filled in the main menu; once it is listed, as main_loop
\* lists it, with no order, the user keeps choosing the next page
NextNextPages ==
    \/ /\ command = None
       /\ Len(file_rows) < MaxPagesAhead * ROWS_COUNT_IN_PAGE
       /\ \E data \in PagedData : add(data, TimeStamp)
       /\ UNCHANGED pages
    \/ ListContacts(None)
    \/ NextPage

SpecNextPages == Init /\ [][NextNextPages]_vars /\ WF_vars(NextPage)

-----------------------------------------------------------------------------
(* Properties *)

\* the last call was an add that wrote its record
AddDone == last_call.op = "add" /\ outcome = "ok"

\* the id, as a number, of the last record of the table
AddedId == int(Records[Len(Records)]["id"])

\* the ids, as numbers, of a sequence of records
IdsOf(records) == {int(records[i]["id"]) : i \in DOMAIN records}

\* the greatest of a non-empty set of numbers
Greatest(S) == CHOOSE m \in S : \A n \in S : n <= m

\* C1 as stated: over adds and deletes, an id that add has assigned once is
\* never assigned by a later add, also not after its record was deleted.
C1_IdNeverAssignedAgain ==
    [][AddDone' => AddedId' \notin assigned]_vars

\* C1 as amended: over adds and deletes, add never assigns an id that a record
\* of the table holds, and it assigns an id it has assigned before only when
\* no record with that id or a greater one is left in the table.
C1_IdAssignedAgainOnlyWhenFreedAtTheEnd ==
    [][AddDone' =>
          /\ AddedId' \notin IdsOf(Records)
          /\ AddedId' \in assigned => \A n \in IdsOf(Records) : n < AddedId']_vars

\* an add after a delete that freed an id which the add did not take
C1_Witness ==
    /\ AddDone
    /\ Len(before) >= 1
    /\ \E n \in assigned : n < AddedId /\ n \notin IdsOf(Records)

\* C2: from the empty table that __init__ created, adds alone give the
\* records the ids "1", "2", ..., "N" in call order, whatever id the caller
\* put in the record.
C2_AddsAloneAssignOneToN ==
    /\ \A i \in DOMAIN Records : Records[i]["id"] = str(i)
    /\ assigned = 1..Len(Records)

\* a third or later add whose record came with an id of the caller's
C2_Witness ==
    /\ AddDone
    /\ "id" \in DOMAIN last_call.data
    /\ Len(Records) >= 3

\* C3: over adds and deletes, the id an add assigns is the greatest id among
\* the records of the table plus 1, and 1 when the table has no records.
C3_AddAssignsGreatestPlusOne ==
    AddDone =>
        /\ Len(Records) = Len(before) + 1
        /\ Records[Len(Records)]["id"] =
              IF before = <<>> THEN <<49>> ELSE str(Greatest(IdsOf(before)) + 1)

\* an add to a table that deletes have emptied
C3_Witness ==
    /\ AddDone
    /\ before = <<>>
    /\ Cardinality(assigned) >= 2

\* every pair of the criteria is a field of the row, with exactly that value
HoldsExactly(row, criteria) ==
    \A k \in DOMAIN criteria :
        criteria[k][1] \in DOMAIN row /\ row[criteria[k][1]] = criteria[k][2]

\* two code points that are the same letter, in either case
SameLetter(x, y) ==
    \/ x = y
    \/ x \in 65..90 /\ y = x + 32
    \/ y \in 65..90 /\ x = y + 32

SameIgnoringCase(a, b) ==
    Len(a) = Len(b) /\ \A i \in DOMAIN a : SameLetter(a[i], b[i])

\* every pair of the criteria is a field of the row, with that value in some case
HoldsIgnoringCase(row, criteria) ==
    \A k \in DOMAIN criteria :
        /\ criteria[k][1] \in DOMAIN row
        /\ SameIgnoringCase(row[criteria[k][1]], criteria[k][2])

\* the criteria of the last call (none given: no pair to hold)
GivenCriteria == IF last_call.criteria = None THEN <<>> ELSE TheValue(last_call.criteria)

CalledOk(op) == last_call.op = op /\ outcome = "ok"

\* C4: over Add, Delete and Update commands, Update naming any column of the
\* schema, no two records of the table have the same id.
C4_IdsAreUnique ==
    "id" \in Range(file_header) =>
        \A i, j \in DOMAIN Records : i # j => Records[i]["id"] # Records[j]["id"]

\* C5: an update that names a column which is not in the schema and faults
\* has no partial effect: the records of the table are those it held before.
C5_FaultingUpdateLeavesTheTable ==
    (/\ last_call.op = "update"
     /\ ~(DOMAIN last_call.data \subseteq Range(file_header))
     /\ outcome # "ok")
    => Records = before

\* C6: after delete(criteria) the table holds exactly the records that did
\* not match every pair of the criteria, unchanged and in their order; after
\* delete({id: x}) no record with id x is left.
C6_DeleteKeepsExactlyTheOthers ==
    CalledOk("delete") =>
        /\ Records = SelectSeq(before, LAMBDA row : ~HoldsExactly(row, GivenCriteria))
        /\ (Len(GivenCriteria) = 1 /\ GivenCriteria[1][1] = "id") =>
              \A i \in DOMAIN Records : Records[i]["id"] # GivenCriteria[1][2]

\* a delete by two pairs that took one record out of three
C6_Witness ==
    /\ CalledOk("delete")
    /\ Len(GivenCriteria) = 2
    /\ Len(before) = 3
    /\ Len(Records) = 2

\* C7: an update of schema columns changes the named fields of the records
\* with the given id and nothing else: the other records, the other fields,
\* the number of records and their order stay.
C7_UpdateChangesOnlyTheNamedFields ==
    (CalledOk("update") /\ DOMAIN last_call.data \subseteq Range(file_header)) =>
        /\ Len(Records) = Len(before)
        /\ \A i \in DOMAIN before : \A c \in Range(file_header) :
              Records[i][c] =
                 IF before[i]["id"] = GivenCriteria[1][2] /\ c \in DOMAIN last_call.data
                 THEN last_call.data[c]
                 ELSE before[i][c]

\* an update of the last name of one record among several
C7_Witness ==
    /\ CalledOk("update")
    /\ "last_name" \in DOMAIN last_call.data
    /\ Len(before) >= 2
    /\ Records # before

\* C8: list(criteria) with neither order_by nor row_slice returns exactly the
\* records whose fields equal every pair of the criteria up to letter case
\* (no substring match), in the order of the table.
C8_ListKeepsExactlyTheMatches ==
    (CalledOk("list") /\ last_call.order_by = None /\ last_call.row_slice = None) =>
        result = SelectSeq(before, LAMBDA row : HoldsIgnoringCase(row, GivenCriteria))

\* a list by last name that returned a record differing in case and left out
\* a record whose last name only starts with the value
C8_Witness ==
    /\ CalledOk("list")
    /\ last_call.order_by = None /\ last_call.row_slice = None
    /\ GivenCriteria = <<<<"last_name", S_a>>>>
    /\ \E i \in DOMAIN result : result[i]["last_name"] = S_A
    /\ \E i \in DOMAIN before : before[i]["last_name"] = S_ab
    /\ Len(result) >= 2

\* the row differs from the criteria in letter case only
DiffersInCaseOnly(row, criteria) ==
    HoldsIgnoringCase(row, criteria) /\ ~HoldsExactly(row, criteria)

\* C9: list returns a record that differs from the criteria in letter case
\* only, delete does not remove it; delete removes a record only when every
\* pair of the criteria equals its field exactly.
C9_DeleteIsExactListIgnoresCase ==
    /\ (CalledOk("list") /\ last_call.order_by = None /\ last_call.row_slice = None) =>
          \A i \in DOMAIN before :
              DiffersInCaseOnly(before[i], GivenCriteria) =>
                  \E j \in DOMAIN result : result[j] = before[i]
    /\ CalledOk("delete") =>
          /\ \A i \in DOMAIN before :
                ~HoldsExactly(before[i], GivenCriteria) =>
                    \E j \in DOMAIN Records : Records[j] = before[i]
          /\ Len(Records) =
                Cardinality({i \in DOMAIN before : ~HoldsExactly(before[i], GivenCriteria)})

\* a delete by last name that removed a record and kept one differing in case
C9_Witness ==
    /\ CalledOk("delete")
    /\ GivenCriteria = <<<<"last_name", S_a>>>>
    /\ Len(Records) < Len(before)
    /\ \E i \in DOMAIN Records : Records[i]["last_name"] = S_A

\* a comes before b in the order of strings by code point
ComesBefore(a, b) ==
    \E k \in 1..Len(b) :
        /\ \A m \in 1..(k - 1) : m <= Len(a) /\ a[m] = b[m]
        /\ (k > Len(a) \/ a[k] < b[k])

\* the place of records[i] in a stable ascending sort by column
Rank(records, column, i) ==
    Cardinality({j \in DOMAIN records :
                    ComesBefore(records[j][column], records[i][column])})
    + Cardinality({j \in 1..i : records[j][column] = records[i][column]})

\* C10: list(order_by=c) returns the filtered records rearranged in ascending
\* order of the strings in column c, not of numbers ("10" before "2"), and
\* records with equal values keep the order they have in the table.
C10_ListSortsByStringStably ==
    (CalledOk("list") /\ TruthyStr(last_call.order_by) /\ last_call.row_slice = None) =>
        LET kept == SelectSeq(before, LAMBDA row : HoldsIgnoringCase(row, GivenCriteria))
            column == TheValue(last_call.order_by)
        IN  /\ Len(result) = Len(kept)
            /\ \A i \in DOMAIN kept : result[Rank(kept, column, i)] = kept[i]

\* a list ordered by id that returned "10" before "2"
C10_Witness ==
    /\ CalledOk("list")
    /\ last_call.order_by = Some("id") /\ last_call.row_slice = None
    /\ \E i, j \in DOMAIN result :
          i < j /\ result[i]["id"] = S_10 /\ result[j]["id"] = S_2

\* the records of the last call that match its criteria up to letter case,
\* in the stable ascending order of its order_by column when it names one
Arranged ==
    LET kept == SelectSeq(before, LAMBDA row : HoldsIgnoringCase(row, GivenCriteria))
    IN  IF TruthyStr(last_call.order_by)
        THEN [r \in DOMAIN kept |->
                kept[CHOOSE i \in DOMAIN kept :
                        Rank(kept, TheValue(last_call.order_by), i) = r]]
        ELSE kept

\* the last call was a list with row_slice = [start, end], 0 <= start <= end
SliceGiven ==
    /\ last_call.op = "list"
    /\ last_call.row_slice # None
    /\ 0 <= TheValue(last_call.row_slice)[1]
    /\ TheValue(last_call.row_slice)[1] <= TheValue(last_call.row_slice)[2]

\* every column the last call names in its criteria or its order_by is a
\* column of the table
NamesColumnsOnly ==
    /\ \A k \in DOMAIN GivenCriteria : GivenCriteria[k][1] \in Range(file_header)
    /\ TruthyStr(last_call.order_by) => TheValue(last_call.order_by) \in Range(file_header)

\* C11: list with row_slice = [start, end], 0 <= start <= end, returns the
\* elements at the indices start <= i < end of the filtered and sorted
\* sequence; a start or an end beyond its length gives the shorter or the
\* empty sequence and no fault.
C11_ListSlicesTheArrangedSequence ==
    (SliceGiven /\ file_exists /\ NamesColumnsOnly) =>
        LET start == TheValue(last_call.row_slice)[1]
            end == TheValue(last_call.row_slice)[2]
            stop == IF end < Len(Arranged) THEN end ELSE Len(Arranged)
        IN  /\ outcome = "ok"
            /\ Len(result) = IF stop > start THEN stop - start ELSE 0
            /\ \A k \in DOMAIN result : result[k] = Arranged[start + k]

\* a list by last name, ordered, with an end beyond the two records left:
\* what it returns is the second of the arranged records, which is the
\* first record of the table
C11_Witness ==
    /\ CalledOk("list")
    /\ SliceGiven
    /\ last_call.row_slice = Some(<<1, 3>>)
    /\ GivenCriteria # <<>> /\ TruthyStr(last_call.order_by)
    /\ Len(before) = 3
    /\ Len(result) = 1
    /\ result[1] = before[1]

\* C12: in every state of the table, also with no records, a list whose
\* criteria name a key that is no column of the table faults, and so does a
\* list whose order_by is no column of the table.
C12_UnknownColumnFaults ==
    (last_call.op = "list" /\ ~NamesColumnsOnly) => outcome # "ok"

\* C13: while the file is gone after drop_table, each of add, list, delete
\* and update faults and changes nothing: the file stays absent and
\* field_names stays None.
C13_CallsOnADroppedTableFault ==
    [][(~file_exists /\ last_call'.op \in {"add", "list", "delete", "update"}) =>
          /\ outcome' # "ok"
          /\ ~file_exists'
          /\ field_names' = None]_vars

\* an add that faulted because the table had been dropped
C13_Witness ==
    /\ last_call.op = "add"
    /\ outcome = "Exception"
    /\ ~file_exists
    /\ field_names = None

\* C14: create_table(columns) on a table whose file exists changes nothing,
\* whatever the columns: the header, the records and field_names stay.
C14_CreateOnAnExistingFileChangesNothing ==
    [][(file_exists /\ last_call'.op = "create_table") =>
          /\ file_exists'
          /\ file_header' = file_header
          /\ file_rows' = file_rows
          /\ field_names' = field_names]_vars

\* C17: an add that wrote its record leaves every record the table held as
\* it was and where it was, and puts one new record, the caller's, behind
\* them all; so adds alone keep the records in the order of the calls.
C17_AddAppendsAndKeepsTheRest ==
    AddDone =>
        /\ SubSeq(Records, 1, Len(Records) - 1) = before
        /\ \A c \in DOMAIN last_call.data \ {"id"} :
              Records[Len(Records)][c] = last_call.data[c]
        /\ Records[Len(Records)]["date_added"] = TimeStamp

\* an add to a table of two records with last names other than the new one
C17_Witness ==
    /\ AddDone
    /\ Len(before) = 2
    /\ before[1]["last_name"] # before[2]["last_name"]
    /\ \A i \in DOMAIN before : before[i]["last_name"] # last_call.data["last_name"]

\* C19: in every state the store reaches by its own calls, field_names is
\* set (not None) exactly when the file of the table exists.
C19_SchemaIsSetIffFileExists ==
    (field_names # None) <=> file_exists

\* a table created again, with no columns, after a drop: the file exists and
\* field_names is the empty list
C19_Witness ==
    /\ last_call.op = "create_table"
    /\ file_exists
    /\ field_names = Some(<<>>)

\* pages_loop has a command: the program is in the page loop
InPages == command # None

\* the windows of the three commands of the page loop
CommandWindow == Window(lists, TheValue(command))
PreviousWindow == Window(lists, TheValue(previous_page_command))
NextWindow == Window(lists, TheValue(next_page_command))

\* a command, of the given order, that holds the window <<start, end>>
CommandWith(order_by, start, end) ==
    LET new == ListContactsCommand(<<>>, order_by)
        h1 == SetSliceItem(new.heap, new.command, 1, start)
    IN  Object(SetSliceItem(h1, new.command, 2, end), new.command)

\* C15: for a page window P and a number of records total with
\* P.start >= page size and P.end + page size <= total, the previous page of
\* the next page of P has the start and the end of P.  Stated of the command
\* of the page loop and of every command with a window in the table.
C15_PreviousUndoesNext ==
    LET total == Len(file_rows)
        Undone(given) ==
            LET P == Window(given.heap, given.command)
                next == get_next_page_command(given.heap, given.command, total)
                back == get_previous_page_command(next.heap, next.command)
            IN  (P[1] >= ROWS_COUNT_IN_PAGE /\ P[2] + ROWS_COUNT_IN_PAGE <= total) =>
                    Window(back.heap, back.command) = P
    IN  /\ InPages => Undone(Object(lists, TheValue(command)))
        /\ \A start \in 0..total : \A end \in start..total :
              Undone(CommandWith(None, start, end))

\* the second of three full pages, with the first and the third page behind
\* the options
C15_Witness ==
    /\ InPages
    /\ Len(file_rows) >= 3 * ROWS_COUNT_IN_PAGE
    /\ CommandWindow = <<ROWS_COUNT_IN_PAGE, 2 * ROWS_COUNT_IN_PAGE>>
    /\ PreviousWindow = <<0, ROWS_COUNT_IN_PAGE>>
    /\ NextWindow = <<2 * ROWS_COUNT_IN_PAGE, 3 * ROWS_COUNT_IN_PAGE>>

\* C16: get_previous_page_command and get_next_page_command leave the
\* window and the order_by of the command they are given as they were when
\* it was executed, and the commands they return hold lists of their own and
\* the same order_by.
C16_PagingLeavesTheGivenCommand ==
    InPages =>
        /\ CommandWindow = TheValue(last_call.row_slice)
        /\ TheValue(command).order_by = last_call.order_by
        /\ TheValue(previous_page_command).order_by = last_call.order_by
        /\ TheValue(next_page_command).order_by = last_call.order_by
        /\ Cardinality({TheValue(command).row_slice,
                        TheValue(previous_page_command).row_slice,
                        TheValue(next_page_command).row_slice}) = 3

\* a command ordered by last name on the second page, and the commands made
\* from it with other windows
C16_Witness ==
    /\ InPages
    /\ TheValue(command).order_by = Some("last_name")
    /\ CommandWindow = <<ROWS_COUNT_IN_PAGE, 2 * ROWS_COUNT_IN_PAGE>>
    /\ PreviousWindow # CommandWindow
    /\ NextWindow # CommandWindow
    /\ NextWindow # PreviousWindow

\* C18: whatever the number of records, every window that the page loop
\* reaches from [0, page size] by previous and next pages starts at 0 or
\* later, and the list executed with it does not fault.
C18_WindowsStartAtZeroOrLater ==
    /\ InPages => CommandWindow[1] >= 0 /\ PreviousWindow[1] >= 0 /\ NextWindow[1] >= 0
    /\ last_call.op = "list" => outcome = "ok"

\* the window of the last page: [total - page size, total]
LastWindow == <<Len(file_rows) - ROWS_COUNT_IN_PAGE, Len(file_rows)>>

\* C20: with total >= page size records and the table unchanged, next pages
\* from the window [0, page size] lead to the window [total - page size,
\* total], and the next page of that window is that window again.
C20_NextPagesReachTheLastPage ==
    (InPages /\ Len(file_rows) >= ROWS_COUNT_IN_PAGE)
        ~> [](InPages /\ CommandWindow = LastWindow /\ NextWindow = LastWindow)

\* the last page of a table whose last page overlaps the page before it,
\* reached by next pages
C20_Witness ==
    /\ InPages
    /\ Len(file_rows) = 2 * ROWS_COUNT_IN_PAGE + 1
    /\ CommandWindow = LastWindow
    /\ NextWindow = LastWindow
    /\ PreviousWindow = <<ROWS_COUNT_IN_PAGE - 1, 2 * ROWS_COUNT_IN_PAGE - 1>>

====
